---- MODULE Spec2Model ----
\* Model of sudoku-solver-lib/src/board.rs: construction of BoardData (houses,
\* weak-link graph, forced eliminations) and the Board mutation protocol
\* (clear_value, clear_candidate, clear_candidates, set_solved, set_mask, clone).
EXTENDS Integers, Sequences, FiniteSets, TLC

VARIABLES
    pc,        \* position in Board::new: "start", "sudoku_links", "constraint_links", "board", "ready", "panic"
    input,     \* arguments of Board::new: [size, regions, constraints]
    datas,     \* the BoardData allocations (Arc<BoardData>), indexed from 1
    boards,    \* the Board values: [board: cell -> ValueMask, data: index into datas]
    cand1,     \* init_sudoku_weak_links: the outer loop's candidate1
    ci,        \* init_constraint_weak_links: index of the current constraint
    work,      \* pairs the current loop iteration has still to process
    elims,     \* init_constraint_weak_links: the forced eliminations collected
    last,      \* the call that has just returned, with its arguments and result
    prev,      \* the boards as they were before that call
    hist,      \* per board: did every call made on it so far return true
    nops       \* number of calls made on the boards so far

vars == <<pc, input, datas, boards, cand1, ci, work, elims, last, prev, hist, nops>>

\* ---------------------------------------------------------------- bounds
\* Calls made on the boards after construction.
MaxOps == 2
\* Length of the list passed to clear_candidates.
MaxListLen == 2

\* ------------------------------------------------------- generic helpers
Range(s) == {s[i] : i \in 1..Len(s)}

RECURSIVE SumOver(_, _)
SumOver(S, f) ==
    IF S = {} THEN 0
    ELSE LET x == CHOOSE y \in S : TRUE IN Cardinality(f[x]) + SumOver(S \ {x}, f)

\* All sequences over S of length at most n.
RECURSIVE SeqsUpTo(_, _)
SeqsUpTo(S, n) ==
    IF n = 0 THEN {<<>>}
    ELSE LET shorter == SeqsUpTo(S, n - 1)
         IN  shorter \cup {Append(s, x) : s \in {t \in shorter : Len(t) = n - 1}, x \in S}

\* The orders in which a hash map may iterate over the keys K.
Orders(K) == {f \in [1..Cardinality(K) -> K] : \A i, j \in 1..Cardinality(K) : f[i] = f[j] => i = j}

\* ------------------------------------------------- CellIndex / CandidateIndex
NumCells(size) == size * size
NumCandidates(size) == size * size * size
Cells(size) == 0..(NumCells(size) - 1)
Candidates(size) == 0..(NumCandidates(size) - 1)

\* cu.cell(row, col): row-major cell index
cell(size, row, col) == row * size + col
\* cu.candidate(cell, val), val in 1..size
candidate(size, c, val) == c * size + (val - 1)
\* candidate.cell_index_and_value()
cell_index_and_value(size, cand) == <<cand \div size, (cand % size) + 1>>
\* cu.all_cells(), cu.all_candidates(): ascending index order
all_cells(size) == [i \in 1..NumCells(size) |-> i - 1]
all_candidates(size) == [i \in 1..NumCandidates(size) |-> i - 1]

\* Positions <<i, j>>, i < j, of an n-element slice, in lexicographic order.
PosPairs(n) ==
    SelectSeq([k \in 1..(n * n) |-> <<((k - 1) \div n) + 1, ((k - 1) % n) + 1>>],
              LAMBDA p : p[1] < p[2])

\* cu.candidate_pairs(cells): for every value, every pair of distinct positions
\* of cells, the two candidates of that value.
candidate_pairs(size, cells) ==
    LET pp == PosPairs(Len(cells))
        n  == Len(pp)
    IN  [k \in 1..(size * n) |->
            LET v == ((k - 1) \div n) + 1
                p == pp[((k - 1) % n) + 1]
            IN  <<candidate(size, cells[p[1]], v), candidate(size, cells[p[2]], v)>>]

\* ---------------------------------------------------------------- ValueMask
\* A ValueMask is the set of values still possible plus the solved flag.
from_all_values(size) == [vals |-> 1..size, solved |-> FALSE]
has(m, val) == val \in m.vals
without(m, val) == [m EXCEPT !.vals = @ \ {val}]
with_only(m, val) == [m EXCEPT !.vals = @ \cap {val}]
solved(m) == [m EXCEPT !.solved = TRUE]
is_empty(m) == m.vals = {}
is_solved(m) == m.solved

\* Every mask a caller can build for a board of this size.
Masks(size) == [vals : SUBSET (1..size), solved : BOOLEAN]

\* -------------------------------------------------------------------- House
\* House::new(name, cells): the cells are kept in ascending order.
HouseNew(name, cells) == [name |-> name, cells |-> SortSeq(cells, LAMBDA a, b : a < b)]

\* --------------------------------------------------------------------- math
\* default_regions(size): boxes of height h and width size/h, h the largest
\* divisor of size with h*h <= size.
BoxHeight(size) ==
    CHOOSE h \in 1..size :
        /\ size % h = 0 /\ h * h <= size
        /\ \A g \in 1..size : (size % g = 0 /\ g * g <= size) => g <= h

default_regions(size) ==
    LET h == BoxHeight(size)
        w == size \div h
    IN  [i \in 1..NumCells(size) |->
            LET row == (i - 1) \div size
                col == (i - 1) % size
            IN  (row \div h) * h + (col \div w)]

\* ------------------------------------------------- BoardData::create_houses
\* houses.iter().any(|h| h.cells() == house.cells())
IsDuplicate(houses, house) == \E i \in 1..Len(houses) : houses[i].cells = house.cells

RowHouses(size) ==
    [r \in 1..size |-> HouseNew(<<"Row", r>>, [c \in 1..size |-> cell(size, r - 1, c - 1)])]

ColumnHouses(size) ==
    [c \in 1..size |-> HouseNew(<<"Column", c>>, [r \in 1..size |-> cell(size, r - 1, c - 1)])]

\* The default boxes taken also when some region has not size cells
UsedRegions_balanced_only(size, regions) ==
    IF /\ Len(regions) = NumCells(size)
       /\ \A r \in Range(regions) :
              Cardinality({i \in 1..Len(regions) : regions[i] = r}) = size
    THEN regions ELSE default_regions(size)

\* The regions actually used: the argument when it has one entry per cell,
\* the default boxes otherwise.
UsedRegions(size, regions) ==
    IF Len(regions) = NumCells(size) THEN regions ELSE default_regions(size)

\* house_for_region[region]: the cells of the region in cu.all_cells() order
house_for_region(size, regs, region) ==
    SelectSeq(all_cells(size), LAMBDA c : regs[c + 1] = region)

\* No region house is ever kept
AddRegionHouses_skip(size, regs, order, k, houses) == houses

\* The loop over house_for_region, visiting the keys in the given order.
RECURSIVE AddRegionHouses(_, _, _, _, _)
AddRegionHouses(size, regs, order, k, houses) ==
    IF k > Len(order) THEN houses
    ELSE LET cs    == house_for_region(size, regs, order[k])
             house == HouseNew(<<"Region", order[k] + 1>>, cs)
             next  == IF Len(cs) = size /\ ~IsDuplicate(houses, house)
                      THEN Append(houses, house) ELSE houses
         IN  AddRegionHouses(size, regs, order, k + 1, next)

\* The constraint's houses pushed without the duplicate test
AddHouses_no_dedup(hs, k, houses) ==
    IF k > Len(hs) THEN houses ELSE houses \o SubSeq(hs, k, Len(hs))

\* The loop over one constraint's get_houses(size).
RECURSIVE AddHouses(_, _, _)
AddHouses(hs, k, houses) ==
    IF k > Len(hs) THEN houses
    ELSE AddHouses(hs, k + 1,
                   IF IsDuplicate(houses, hs[k]) THEN houses ELSE Append(houses, hs[k]))

\* The loop over the constraints.
RECURSIVE AddConstraintHouses(_, _, _)
AddConstraintHouses(constraints, k, houses) ==
    IF k > Len(constraints) THEN houses
    ELSE AddConstraintHouses(constraints, k + 1,
                             AddHouses(constraints[k].houses, 1, houses))

create_houses(size, regions, constraints, order) ==
    LET regs == UsedRegions(size, regions)
        h0   == RowHouses(size) \o ColumnHouses(size)
        h1   == AddRegionHouses(size, regs, order, 1, h0)
    IN  AddConstraintHouses(constraints, 1, h1)

\* The keys of house_for_region.
RegionKeys(size, regions) == Range(UsedRegions(size, regions))

create_houses_by_cell(size, houses) ==
    [c \in Cells(size) |->
        SelectSeq(houses, LAMBDA h : c \in Range(h.cells))]

\* BoardData::new
BoardDataNew(size, regions, constraints, order) ==
    LET houses == create_houses(size, regions, constraints, order)
    IN  [size             |-> size,
         num_cells        |-> size * size,
         num_candidates   |-> size * size * size,
         all_values_mask  |-> from_all_values(size),
         houses           |-> houses,
         houses_by_cell   |-> create_houses_by_cell(size, houses),
         weak_links       |-> [c \in Candidates(size) |-> {}],
         total_weak_links |-> 0,
         constraints      |-> constraints]

\* --------------------------------------------- BoardData::add_weak_link
\* add_weak_link inserting in one direction only
add_weak_link_one_way(data, candidate1, candidate2) ==
    LET ins1 == candidate2 \notin data.weak_links[candidate1]
    IN  [data EXCEPT !.weak_links[candidate1] = @ \cup {candidate2},
                     !.total_weak_links = IF ins1 THEN @ + 1 ELSE @]

\* add_weak_link counting both directions whether or not they were inserted
add_weak_link_count_always(data, candidate1, candidate2) ==
    [data EXCEPT !.weak_links[candidate1] = @ \cup {candidate2},
                 !.weak_links[candidate2] = @ \cup {candidate1},
                 !.total_weak_links = @ + 2]

add_weak_link(data, candidate1, candidate2) ==
    LET ins1 == candidate2 \notin data.weak_links[candidate1]
        d1   == [data EXCEPT !.weak_links[candidate1] = @ \cup {candidate2},
                             !.total_weak_links = IF ins1 THEN @ + 1 ELSE @]
        ins2 == candidate1 \notin d1.weak_links[candidate2]
    IN  [d1 EXCEPT !.weak_links[candidate2] = @ \cup {candidate1},
                   !.total_weak_links = IF ins2 THEN @ + 1 ELSE @]

\* ------------------------------------- BoardData::init_sudoku_weak_links
\* The pairs the body of the outer loop passes to add_weak_link for candidate1,
\* in order: the other values of the cell, then the pairs of every house of the cell.
\* The house loop stopping after the first house of the cell
HousePairs_first_house(size, hs, k) ==
    IF k > Len(hs) THEN <<>> ELSE candidate_pairs(size, hs[k].cells)

RECURSIVE HousePairs(_, _, _)
HousePairs(size, hs, k) ==
    IF k > Len(hs) THEN <<>>
    ELSE candidate_pairs(size, hs[k].cells) \o HousePairs(size, hs, k + 1)

\* The loop body without the house links
SudokuWork_same_cell(data, candidate1) ==
    LET size == data.size
        cv   == cell_index_and_value(size, candidate1)
    IN  [k \in 1..(size - cv[2]) |-> <<candidate1, candidate(size, cv[1], cv[2] + k)>>]

SudokuWork(data, candidate1) ==
    LET size  == data.size
        cv    == cell_index_and_value(size, candidate1)
        cell1 == cv[1]
        val1  == cv[2]
        same  == [k \in 1..(size - val1) |-> <<candidate1, candidate(size, cell1, val1 + k)>>]
    IN  same \o HousePairs(size, data.houses_by_cell[cell1], 1)

\* The first candidate at or after c whose loop body calls add_weak_link at all.
RECURSIVE NextCand(_, _)
NextCand(data, c) ==
    IF c >= data.num_candidates THEN c
    ELSE IF SudokuWork(data, c) # <<>> THEN c ELSE NextCand(data, c + 1)

\* ----------------------------------- BoardData::init_constraint_weak_links
\* constraint.get_weak_links(size)
get_weak_links(constraint, size) == constraint.weak_links

\* The first constraint at or after k whose get_weak_links is not empty.
RECURSIVE NextConstraint(_, _)
NextConstraint(data, k) ==
    IF k > Len(data.constraints) THEN k
    ELSE IF get_weak_links(data.constraints[k], data.size) # <<>> THEN k
    ELSE NextConstraint(data, k + 1)

ConstraintWork(data, k) ==
    IF k > Len(data.constraints) THEN <<>> ELSE get_weak_links(data.constraints[k], data.size)

\* ------------------------------------------------------ Board: clearing
\* Board::has_candidate
has_candidate(size, board, cand) ==
    LET cv == cell_index_and_value(size, cand)
    IN  has(board[cv[1]], cv[2])

\* clear_value reporting success whatever is left in the cell
clear_value_unreported(board, c, val) ==
    [board |-> [board EXCEPT ![c] = without(@, val)], ret |-> TRUE]

\* clear_value undoing a removal that empties the cell
clear_value_rollback(board, c, val) ==
    LET nb == [board EXCEPT ![c] = without(@, val)]
    IN  IF is_empty(nb[c]) THEN [board |-> board, ret |-> FALSE]
        ELSE [board |-> nb, ret |-> TRUE]

\* Board::clear_value: the new grid and the returned flag
clear_value(board, c, val) ==
    LET nb == [board EXCEPT ![c] = without(@, val)]
    IN  [board |-> nb, ret |-> ~is_empty(nb[c])]

\* Board::clear_candidate
clear_candidate(size, board, cand) ==
    LET cv == cell_index_and_value(size, cand)
    IN  clear_value(board, cv[1], cv[2])

\* The loop returning at the first contradiction
RECURSIVE ClearLoop_short_circuit(_, _, _, _, _)
ClearLoop_short_circuit(size, board, candidates, k, valid) ==
    IF k > Len(candidates) THEN [board |-> board, ret |-> valid]
    ELSE LET r == clear_candidate(size, board, candidates[k])
         IN  IF ~r.ret THEN [board |-> r.board, ret |-> FALSE]
             ELSE ClearLoop_short_circuit(size, r.board, candidates, k + 1, valid)

\* Board::clear_candidates: the loop from entry k on, valid so far
RECURSIVE ClearLoop(_, _, _, _, _)
ClearLoop(size, board, candidates, k, valid) ==
    IF k > Len(candidates) THEN [board |-> board, ret |-> valid]
    ELSE LET r == clear_candidate(size, board, candidates[k])
         IN  ClearLoop(size, r.board, candidates, k + 1, IF ~r.ret THEN FALSE ELSE valid)

clear_candidates(size, board, candidates) == ClearLoop(size, board, candidates, 1, TRUE)

\* ------------------------------------------------------------ Constraint
\* A constraint is what its three operations return: get_houses, get_weak_links
\* and enforce. enforce(board, cell, val) clears, through clear_candidates, the
\* targets its rule attaches to the solved candidate, and reports Invalid when
\* the solved candidate is one it forbids or when a clear emptied a cell.
EnforceTargets(constraint, cand) ==
    LET hit == SelectSeq(constraint.clears, LAMBDA p : p[1] = cand)
    IN  [k \in 1..Len(hit) |-> hit[k][2]]

enforce(constraint, size, board, c, val) ==
    LET cand == candidate(size, c, val)
        r    == clear_candidates(size, board, EnforceTargets(constraint, cand))
    IN  [board  |-> r.board,
         result |-> IF cand \in constraint.invalid \/ ~r.ret THEN "Invalid"
                    ELSE IF r.board # board THEN "Changed" ELSE "None"]

\* ---------------------------------------------------- Board::set_solved
\* BTreeSet iteration: ascending order
RECURSIVE Ascending(_)
Ascending(S) ==
    IF S = {} THEN <<>>
    ELSE LET m == CHOOSE x \in S : \A y \in S : x <= y
         IN  <<m>> \o Ascending(S \ {m})

\* The elimination loop clearing every linked candidate before it reports
ElimLoop_continue(size, board, links, k, cleared) ==
    LET r == clear_candidates(size, board, SubSeq(links, k, Len(links)))
    IN  [board |-> r.board, ret |-> r.ret, cleared |-> cleared \o SubSeq(links, k, Len(links))]

\* The elimination loop leaving after its first iteration
ElimLoop_first_only(size, board, links, k, cleared) ==
    IF k > Len(links) THEN [board |-> board, ret |-> TRUE, cleared |-> cleared]
    ELSE LET r == clear_candidate(size, board, links[k])
         IN  [board |-> r.board, ret |-> r.ret, cleared |-> Append(cleared, links[k])]

\* "Apply all weak links": the loop from entry k on; cleared lists the
\* candidates passed to clear_candidate so far.
RECURSIVE ElimLoop(_, _, _, _, _)
ElimLoop(size, board, links, k, cleared) ==
    IF k > Len(links) THEN [board |-> board, ret |-> TRUE, cleared |-> cleared]
    ELSE LET r == clear_candidate(size, board, links[k])
         IN  IF ~r.ret
             THEN [board |-> r.board, ret |-> FALSE, cleared |-> Append(cleared, links[k])]
             ELSE ElimLoop(size, r.board, links, k + 1, Append(cleared, links[k]))

\* The constraint loop going on after an Invalid outcome
RECURSIVE EnforceLoop_no_abort(_, _, _, _, _, _, _)
EnforceLoop_no_abort(size, board, constraints, k, c, val, enforced) ==
    IF k > Len(constraints) THEN [board |-> board, ret |-> TRUE, enforced |-> enforced]
    ELSE LET r    == enforce(constraints[k], size, board, c, val)
             rest == EnforceLoop_no_abort(size, r.board, constraints, k + 1, c, val,
                                          Append(enforced, k))
         IN  [rest EXCEPT !.ret = @ /\ r.result # "Invalid"]

\* "Enforce all constraints": the loop from constraint k on; enforced lists the
\* constraints invoked so far.
RECURSIVE EnforceLoop(_, _, _, _, _, _, _)
EnforceLoop(size, board, constraints, k, c, val, enforced) ==
    IF k > Len(constraints) THEN [board |-> board, ret |-> TRUE, enforced |-> enforced]
    ELSE LET r == enforce(constraints[k], size, board, c, val)
         IN  IF r.result = "Invalid"
             THEN [board |-> r.board, ret |-> FALSE, enforced |-> Append(enforced, k)]
             ELSE EnforceLoop(size, r.board, constraints, k + 1, c, val, Append(enforced, k))

\* The target cell put back as it was when an elimination fails
SolveCell_reverting(data, board, c, val) ==
    LET marked == [board EXCEPT ![c] = solved(with_only(@, val))]
        e == ElimLoop(data.size, marked,
                      Ascending(data.weak_links[candidate(data.size, c, val)]), 1, <<>>)
    IN  IF ~e.ret
        THEN [board |-> [e.board EXCEPT ![c] = board[c]], ret |-> FALSE,
              cleared |-> e.cleared, enforced |-> <<>>]
        ELSE LET f == EnforceLoop(data.size, e.board, data.constraints, 1, c, val, <<>>)
             IN  [board |-> f.board, ret |-> f.ret,
                  cleared |-> e.cleared, enforced |-> f.enforced]

\* set_solved once both preconditions passed: mark the cell, apply the weak
\* links, enforce the constraints.
SolveCell(data, board, c, val) ==
    LET marked == [board EXCEPT ![c] = solved(with_only(@, val))]
        set_candidate_index == candidate(data.size, c, val)
        e == ElimLoop(data.size, marked,
                      Ascending(data.weak_links[set_candidate_index]), 1, <<>>)
    IN  IF ~e.ret
        THEN [board |-> e.board, ret |-> FALSE, cleared |-> e.cleared, enforced |-> <<>>]
        ELSE LET f == EnforceLoop(data.size, e.board, data.constraints, 1, c, val, <<>>)
             IN  [board |-> f.board, ret |-> f.ret,
                  cleared |-> e.cleared, enforced |-> f.enforced]

\* set_solved without the "already solved" check
set_solved_unchecked(data, board, c, val) ==
    IF ~has(board[c], val)
    THEN [board |-> board, ret |-> FALSE, cleared |-> <<>>, enforced |-> <<>>]
    ELSE SolveCell(data, board, c, val)

set_solved(data, board, c, val) ==
    IF ~has(board[c], val)
    THEN [board |-> board, ret |-> FALSE, cleared |-> <<>>, enforced |-> <<>>]
    ELSE IF is_solved(board[c])
    THEN [board |-> board, ret |-> FALSE, cleared |-> <<>>, enforced |-> <<>>]
    ELSE SolveCell(data, board, c, val)

\* ------------------------------------------------------ Board::set_mask
\* set_mask without its assertion
set_mask_no_assert(board, c, mask) ==
    IF is_empty(mask) THEN [board |-> board, ret |-> FALSE, outcome |-> "return"]
    ELSE [board |-> [board EXCEPT ![c] = mask], ret |-> TRUE, outcome |-> "return"]

\* outcome "panic" is the failed assertion
set_mask(board, c, mask) ==
    IF is_solved(mask) THEN [board |-> board, ret |-> FALSE, outcome |-> "panic"]
    ELSE IF is_empty(mask) THEN [board |-> board, ret |-> FALSE, outcome |-> "return"]
    ELSE [board |-> [board EXCEPT ![c] = mask], ret |-> TRUE, outcome |-> "return"]

\* ------------------------------------------------------------ Board::new
\* Board::new without clear_candidates(&elims)
NewGrid_no_elims(data, es) ==
    [board |-> [c \in Cells(data.size) |-> data.all_values_mask], ret |-> TRUE]

\* The grid Board::new builds: every cell full, then the forced eliminations.
NewGrid(data, es) ==
    clear_candidates(data.size, [c \in Cells(data.size) |-> data.all_values_mask], es)

\* ---------------------------------------------------------------- inputs
NoConstraint == [houses |-> <<>>, weak_links |-> <<>>, invalid |-> {}, clears |-> <<>>]

\* Size 2. A diagonal house given in descending order; links between (cell 0,
\* value 1) and (cell 3, value 2) in both orientations, a link that repeats an
\* intrinsic one, and the self-pair of (cell 2, value 2).
LinkConstraint2 ==
    [NoConstraint EXCEPT
        !.houses = <<HouseNew(<<"Diagonal", 1>>, <<3, 0>>)>>,
        !.weak_links = << <<0, 7>>, <<7, 0>>, <<5, 5>>, <<0, 1>> >>]

\* Size 2. A house with the cells of row 1 under another name; enforce forbids
\* (cell 3, value 2) and clears (cell 3, value 1) when (cell 0, value 1) is solved.
EnforceConstraint2 ==
    [NoConstraint EXCEPT
        !.houses = <<HouseNew(<<"Cage", 1>>, <<1, 0>>)>>,
        !.invalid = {7},
        !.clears = << <<0, 6>> >>]

\* Size 2. enforce forbids (cell 1, value 1) and (cell 3, value 2), and when
\* (cell 2, value 1) is solved it clears that very candidate.
RejectConstraint2 == [NoConstraint EXCEPT !.invalid = {2, 7}, !.clears = << <<4, 4>> >>]

\* Size 2. Self-pairs for both values of cell 0: unsatisfiable from the start.
UnsatConstraint2 == [NoConstraint EXCEPT !.weak_links = << <<0, 0>>, <<1, 1>>, <<0, 0>> >>]

\* Size 3. The two diagonals as houses, a knight's-move link in both
\* orientations and the self-pair of (cell 4, value 2).
LinkConstraint3 ==
    [NoConstraint EXCEPT
        !.houses = <<HouseNew(<<"Diagonal", 1>>, <<8, 4, 0>>),
                     HouseNew(<<"Diagonal", 2>>, <<2, 4, 6>>)>>,
        !.weak_links = << <<0, 15>>, <<15, 0>>, <<13, 13>>, <<0, 3>> >>]

Config(size, regions, constraints) ==
    [size |-> size, regions |-> regions, constraints |-> constraints]

\* The constructions whose boards are then operated on.
Configs ==
    { Config(2, <<>>, <<>>),
      Config(2, <<0, 1, 1, 0>>, <<>>),
      Config(2, <<>>, <<LinkConstraint2, EnforceConstraint2, RejectConstraint2>>),
      Config(2, <<>>, <<EnforceConstraint2, RejectConstraint2, NoConstraint>>) }

\* The constructions whose boards are cloned and then operated on.
CloneConfigs ==
    { Config(2, <<>>, <<>>),
      Config(2, <<>>, <<UnsatConstraint2, EnforceConstraint2>>) }

\* The constructions followed step by step only.
BuildConfigs ==
    { Config(2, <<>>, <<>>),
      Config(2, <<0, 1, 1, 0>>, <<>>),
      Config(2, <<0, 0, 0, 1>>, <<>>),
      Config(2, <<0, 1>>, <<LinkConstraint2, EnforceConstraint2>>),
      Config(2, <<>>, <<UnsatConstraint2, LinkConstraint2>>),
      Config(3, <<>>, <<>>),
      Config(3, <<0, 0, 1, 0, 1, 1, 2, 2, 2>>, <<>>),
      Config(3, <<5, 5, 7, 5, 7, 7, 7, 9, 9>>, <<LinkConstraint3>>),
      Config(4, <<>>, <<>>),
      Config(4, <<0, 0, 1, 1, 0, 0, 1, 1, 1, 1, 1, 2, 2, 2, 2, 2>>, <<>>) }

\* ------------------------------------------------------ recorded calls
NoMask == [vals |-> {}, solved |-> FALSE]

Call(op, b, c, val, list, mask, ret, cleared, enforced) ==
    [op |-> op, b |-> b, cell |-> c, val |-> val, list |-> list, mask |-> mask,
     ret |-> ret, cleared |-> cleared, enforced |-> enforced]

NoCall == Call("none", 0, 0, 0, <<>>, NoMask, TRUE, <<>>, <<>>)

\* ------------------------------------------------------------------ Init
InitWith(configs) ==
    /\ pc = "start"
    /\ input \in configs
    /\ datas = <<>>
    /\ boards = <<>>
    /\ cand1 = 0
    /\ ci = 0
    /\ work = <<>>
    /\ elims = <<>>
    /\ last = NoCall
    /\ prev = <<>>
    /\ hist = <<>>
    /\ nops = 0

Init == InitWith(Configs)

InitClone == InitWith(CloneConfigs)

InitBuild == InitWith(BuildConfigs)

\* -------------------------------------------------- Board::new, by steps
\* BoardData::new, and entry into init_sudoku_weak_links
Construct ==
    /\ pc = "start"
    /\ \E order \in Orders(RegionKeys(input.size, input.regions)) :
          LET d == BoardDataNew(input.size, input.regions, input.constraints, order)
              n == NextCand(d, 0)
          IN  /\ datas' = <<d>>
              /\ cand1' = n
              /\ work' = SudokuWork(d, n)
    /\ pc' = "sudoku_links"
    /\ UNCHANGED <<input, boards, ci, elims, last, prev, hist, nops>>

\* One add_weak_link call of init_sudoku_weak_links
SudokuLinkStep ==
    /\ pc = "sudoku_links"
    /\ work # <<>>
    /\ LET p    == Head(work)
           d    == add_weak_link(datas[1], p[1], p[2])
           rest == Tail(work)
           n    == NextCand(d, cand1 + 1)
           k    == NextConstraint(d, 1)
       IN  /\ datas' = <<d>>
           /\ IF rest # <<>>
              THEN /\ work' = rest
                   /\ UNCHANGED <<pc, cand1, ci>>
              ELSE IF n < d.num_candidates
              THEN /\ cand1' = n
                   /\ work' = SudokuWork(d, n)
                   /\ UNCHANGED <<pc, ci>>
              ELSE /\ cand1' = n
                   /\ ci' = k
                   /\ work' = ConstraintWork(d, k)
                   /\ pc' = IF k <= Len(d.constraints) THEN "constraint_links" ELSE "board"
    /\ UNCHANGED <<input, boards, elims, last, prev, hist, nops>>

\* One pair of init_constraint_weak_links
ConstraintLinkStep ==
    /\ pc = "constraint_links"
    /\ work # <<>>
    /\ LET p    == Head(work)
           d    == IF p[1] # p[2] THEN add_weak_link(datas[1], p[1], p[2]) ELSE datas[1]
           rest == Tail(work)
           k    == NextConstraint(d, ci + 1)
       IN  /\ datas' = <<d>>
           /\ elims' = IF p[1] # p[2] THEN elims ELSE Append(elims, p[1])
           /\ IF rest # <<>>
              THEN /\ work' = rest
                   /\ UNCHANGED <<pc, ci>>
              ELSE /\ ci' = k
                   /\ work' = ConstraintWork(d, k)
                   /\ pc' = IF k <= Len(d.constraints) THEN "constraint_links" ELSE "board"
    /\ UNCHANGED <<input, boards, cand1, last, prev, hist, nops>>

\* The rest of Board::new: the full grid and clear_candidates(&elims)
\* Board::new calls clear_candidates as a statement and returns the board: the
\* flag clear_candidates returns reaches no one, the call record says TRUE.
NewBoard ==
    /\ pc = "board"
    /\ boards' = <<[board |-> NewGrid(datas[1], elims).board, data |-> 1]>>
    /\ pc' = "ready"
    /\ last' = Call("new", 1, 0, 0, elims, NoMask, TRUE, <<>>, <<>>)
    /\ prev' = boards
    /\ hist' = <<[allTrue |-> TRUE]>>
    /\ UNCHANGED <<input, datas, cand1, ci, work, elims, nops>>

Build == Construct \/ SudokuLinkStep \/ ConstraintLinkStep \/ NewBoard

\* ------------------------------------------------------ calls on a board
\* The caller is between two calls: the previous result has been taken.
CanCall == pc = "ready" /\ last.op = "none" /\ nops < MaxOps

\* The caller takes the result of the call that returned.
TakeResult ==
    /\ pc = "ready"
    /\ last.op # "none"
    /\ last' = NoCall
    /\ prev' = <<>>
    /\ UNCHANGED <<pc, input, datas, boards, cand1, ci, work, elims, hist, nops>>

DataOf(b) == datas[boards[b].data]

\* The grid written through to every board that shares the BoardData
Returned_shared(b, nb, call) ==
    /\ boards' = [k \in 1..Len(boards) |->
                     IF boards[k].data = boards[b].data
                     THEN [boards[k] EXCEPT !.board = nb] ELSE boards[k]]
    /\ last' = call
    /\ prev' = boards
    /\ hist' = [hist EXCEPT ![b].allTrue = @ /\ call.ret]
    /\ nops' = nops + 1
    /\ UNCHANGED <<pc, input, datas, cand1, ci, work, elims>>

\* The call on board b returns: its grid becomes nb.
Returned(b, nb, call) ==
    /\ boards' = [boards EXCEPT ![b].board = nb]
    /\ last' = call
    /\ prev' = boards
    /\ hist' = [hist EXCEPT ![b].allTrue = @ /\ call.ret]
    /\ nops' = nops + 1
    /\ UNCHANGED <<pc, input, datas, cand1, ci, work, elims>>

ClearValue ==
    /\ CanCall
    /\ \E b \in 1..Len(boards), c \in Cells(input.size), val \in 1..input.size :
          LET r == clear_value(boards[b].board, c, val)
          IN  Returned(b, r.board, Call("clear_value", b, c, val, <<>>, NoMask, r.ret, <<>>, <<>>))

ClearCandidate ==
    /\ CanCall
    /\ \E b \in 1..Len(boards), cand \in Candidates(input.size) :
          LET r == clear_candidate(DataOf(b).size, boards[b].board, cand)
          IN  Returned(b, r.board,
                       Call("clear_candidate", b, 0, 0, <<cand>>, NoMask, r.ret, <<>>, <<>>))

ClearCandidates ==
    /\ CanCall
    /\ \E b \in 1..Len(boards), list \in SeqsUpTo(Candidates(input.size), MaxListLen) :
          LET r == clear_candidates(DataOf(b).size, boards[b].board, list)
          IN  Returned(b, r.board,
                       Call("clear_candidates", b, 0, 0, list, NoMask, r.ret, <<>>, <<>>))

SetSolved ==
    /\ CanCall
    /\ \E b \in 1..Len(boards), c \in Cells(input.size), val \in 1..input.size :
          LET r == set_solved(DataOf(b), boards[b].board, c, val)
          IN  Returned(b, r.board,
                       Call("set_solved", b, c, val, <<>>, NoMask, r.ret, r.cleared, r.enforced))

SetMask ==
    /\ CanCall
    /\ \E b \in 1..Len(boards), c \in Cells(input.size), mask \in Masks(input.size) :
          LET r == set_mask(boards[b].board, c, mask)
          IN  /\ boards' = [boards EXCEPT ![b].board = r.board]
              /\ last' = Call("set_mask", b, c, 0, <<>>, mask, r.ret, <<>>, <<>>)
              /\ pc' = IF r.outcome = "panic" THEN "panic" ELSE pc
              /\ hist' = [hist EXCEPT ![b].allTrue = @ /\ r.ret]
    /\ prev' = boards
    /\ nops' = nops + 1
    /\ UNCHANGED <<input, datas, cand1, ci, work, elims>>

\* #[derive(Clone)]: the grid is copied, the Arc<BoardData> is shared
Clone ==
    /\ CanCall
    /\ \E b \in 1..Len(boards) :
          /\ boards' = Append(boards, [board |-> boards[b].board, data |-> boards[b].data])
          /\ last' = Call("clone", b, 0, 0, <<>>, NoMask, TRUE, <<>>, <<>>)
          /\ hist' = Append(hist, hist[b])
    /\ prev' = boards
    /\ nops' = nops + 1
    /\ UNCHANGED <<pc, input, datas, cand1, ci, work, elims>>

\* Board::deep_clone: the grid and the BoardData are both copied
DeepClone ==
    /\ CanCall
    /\ \E b \in 1..Len(boards) :
          /\ datas' = Append(datas, DataOf(b))
          /\ boards' = Append(boards, [board |-> boards[b].board, data |-> Len(datas) + 1])
          /\ last' = Call("deep_clone", b, 0, 0, <<>>, NoMask, TRUE, <<>>, <<>>)
          /\ hist' = Append(hist, hist[b])
    /\ prev' = boards
    /\ nops' = nops + 1
    /\ UNCHANGED <<pc, input, cand1, ci, work, elims>>

Mutate == ClearValue \/ ClearCandidate \/ ClearCandidates \/ SetSolved \/ SetMask

\* One board, from its construction on.
Next == Build \/ TakeResult \/ Mutate

Spec == Init /\ [][Next]_vars

\* A board and its clones.
NextClone == Build \/ TakeResult \/ Mutate \/ Clone \/ DeepClone

SpecClone == InitClone /\ [][NextClone]_vars

NextBuild == Build

SpecBuild == InitBuild /\ [][NextBuild]_vars

\* ================================================================ claims
\* The board the last call was made on, before and after the call.
PrevGrid == prev[last.b].board
LastGrid == boards[last.b].board
LastData == datas[boards[last.b].data]
CellOf(cand) == cell_index_and_value(input.size, cand)[1]
SolvedMask(val) == [vals |-> {val}, solved |-> TRUE]

\* C1: set_solved(cell, value) called when value is not a candidate at cell, or
\* when cell is already solved, returns false, leaves every board exactly as it
\* was, clears no linked candidate and invokes no constraint.
C1_RejectedSetSolved ==
    (/\ last.op = "set_solved"
     /\ \/ ~has(PrevGrid[last.cell], last.val)
        \/ is_solved(PrevGrid[last.cell]))
    => /\ ~last.ret
       /\ boards = prev
       /\ last.cleared = <<>>
       /\ last.enforced = <<>>

\* A second set_solved repeating the cell and the value of a solved cell.
C1_Witness ==
    /\ last.op = "set_solved"
    /\ PrevGrid[last.cell] = SolvedMask(last.val)
    /\ ~last.ret

\* C2: without constraints, when set_solved(cell, value) returns true the cell
\* is solved with exactly that value, every candidate linked to (cell, value)
\* is absent, every cell touched by those eliminations is non-empty, and every
\* other candidate outside the cell is present iff it was present before.
C2_SolvedEffect ==
    (last.op = "set_solved" /\ last.ret /\ input.constraints = <<>>)
    => LET linked == LastData.weak_links[candidate(input.size, last.cell, last.val)]
       IN  /\ LastGrid[last.cell] = SolvedMask(last.val)
           /\ \A a \in linked :
                 /\ ~has_candidate(input.size, LastGrid, a)
                 /\ ~is_empty(LastGrid[CellOf(a)])
           /\ \A a \in Candidates(input.size) \ linked :
                 CellOf(a) # last.cell
                 => (has_candidate(input.size, LastGrid, a)
                     <=> has_candidate(input.size, PrevGrid, a))

\* A successful set_solved that removed a candidate from another cell.
C2_Witness ==
    /\ last.op = "set_solved"
    /\ last.ret
    /\ input.constraints = <<>>
    /\ \E a \in LastData.weak_links[candidate(input.size, last.cell, last.val)] :
          /\ CellOf(a) # last.cell
          /\ has_candidate(input.size, PrevGrid, a)

\* Two distinct solved cells of one house of board b.
SolvedPairs(b) ==
    LET d == datas[boards[b].data]
        g == boards[b].board
    IN  {p \in Cells(input.size) \X Cells(input.size) :
            /\ p[1] # p[2]
            /\ is_solved(g[p[1]])
            /\ is_solved(g[p[2]])
            /\ \E i \in 1..Len(d.houses) : {p[1], p[2]} \subseteq Range(d.houses[i].cells)}

\* Board b was built without constraints and every call made on it returned true.
CleanRun(b) == input.constraints = <<>> /\ hist[b].allTrue

\* C3: on a board without constraints on which every call (clear_value,
\* clear_candidate, clear_candidates, set_solved, and set_mask as well) returned
\* true, no two distinct solved cells of one house hold the same value.
C3_AllDifferentPerHouse ==
    \A b \in 1..Len(boards) :
        CleanRun(b)
        => \A p \in SolvedPairs(b) :
              boards[b].board[p[1]].vals \cap boards[b].board[p[2]].vals = {}

\* Two cells of one house solved by two successful set_solved calls.
C3_Witness ==
    \E b \in 1..Len(boards) : CleanRun(b) /\ SolvedPairs(b) # {} /\ last.op = "set_solved"

\* The constraint-supplied pairs of distinct candidates, and the self-pairs.
SuppliedLinks ==
    UNION {{p \in Range(input.constraints[k].weak_links) : p[1] # p[2]} :
              k \in 1..Len(input.constraints)}
ForcedEliminations ==
    UNION {{p[1] : p \in {q \in Range(input.constraints[k].weak_links) : q[1] = q[2]}} :
              k \in 1..Len(input.constraints)}

\* C4: the weak-link graph of every constructed board is symmetric: a is in
\* b's weak-link set iff b is in a's weak-link set.
C4_Symmetric ==
    pc = "ready"
    => \A i \in 1..Len(datas) :
          \A a, b \in Candidates(input.size) :
              a \in datas[i].weak_links[b] <=> b \in datas[i].weak_links[a]

\* A constructed board whose constraints supplied one pair in both orientations.
C4_Witness ==
    /\ pc = "ready"
    /\ \E p \in SuppliedLinks :
          /\ <<p[2], p[1]>> \in SuppliedLinks
          /\ p[2] \in datas[1].weak_links[p[1]]

\* C5: after construction, the candidates of one cell are linked pairwise, and
\* for every house of the final house list and every value, the candidates of
\* that value at two distinct cells of the house are linked.
C5_IntrinsicLinks ==
    pc = "ready"
    => LET d    == datas[1]
           size == d.size
       IN  /\ \A c \in Cells(size) : \A v1, v2 \in 1..size :
                 v1 # v2 => candidate(size, c, v2) \in d.weak_links[candidate(size, c, v1)]
           /\ \A i \in 1..Len(d.houses) : \A v \in 1..size :
                 \A c1, c2 \in Range(d.houses[i].cells) :
                     c1 # c2 => candidate(size, c2, v) \in d.weak_links[candidate(size, c1, v)]

\* A constructed board that kept a region house and a constraint-supplied house.
C5_Witness ==
    /\ pc = "ready"
    /\ \E i, j \in 1..Len(datas[1].houses) :
          /\ datas[1].houses[i].name[1] = "Region"
          /\ datas[1].houses[j].name[1] = "Diagonal"

\* The call passed both precondition checks of set_solved.
PassedChecks == has(PrevGrid[last.cell], last.val) /\ ~is_solved(PrevGrid[last.cell])

\* The constraints invoked by the last set_solved left the target cell alone.
EnforceKeptTarget ==
    \A k \in Range(last.enforced) :
        \A t \in Range(EnforceTargets(LastData.constraints[k],
                                      candidate(input.size, last.cell, last.val))) :
            CellOf(t) # last.cell

\* C6 as stated: whenever set_solved(cell, value) returns false, the target
\* cell's mask is the solved single-value mask for value.
C6_Original ==
    (last.op = "set_solved" /\ ~last.ret) => LastGrid[last.cell] = SolvedMask(last.val)

\* C6 as amended: whenever set_solved(cell, value) passes both precondition
\* checks and then returns false, because an elimination emptied a cell or
\* because a constraint that left the target cell alone reported Invalid, the
\* target cell's mask is the solved single-value mask for value.
C6_FailedAfterMarking ==
    (last.op = "set_solved" /\ ~last.ret /\ PassedChecks /\ EnforceKeptTarget)
    => LastGrid[last.cell] = SolvedMask(last.val)

\* A set_solved that marked its cell and failed on an elimination.
C6_Witness ==
    /\ last.op = "set_solved"
    /\ ~last.ret
    /\ PassedChecks
    /\ last.cleared # <<>>
    /\ last.enforced = <<>>
    /\ LastGrid[last.cell] = SolvedMask(last.val)

\* The grid after the first j entries of the last clear_candidates list have
\* been removed from the grid the call started from.
PrefixGrid(j) ==
    [c \in Cells(input.size) |->
        [PrevGrid[c] EXCEPT !.vals =
            @ \ {cell_index_and_value(input.size, last.list[k])[2] :
                    k \in {i \in 1..j : CellOf(last.list[i]) = c}}]]

\* What the k-th clear_candidate call of the last clear_candidates returned.
IndividualRet(k) == ~is_empty(PrefixGrid(k)[CellOf(last.list[k])])

\* C7: clear_candidates(list) applies every entry: afterwards every listed
\* candidate is absent and nothing else changed, and the result is false iff
\* some individual clear returned false, i.e. true iff every cell named in the
\* list is non-empty afterwards.
C7_ClearCandidatesAll ==
    last.op = "clear_candidates"
    => /\ LastGrid = PrefixGrid(Len(last.list))
       /\ \A k \in 1..Len(last.list) : ~has_candidate(input.size, LastGrid, last.list[k])
       /\ last.ret <=> \A k \in 1..Len(last.list) : IndividualRet(k)
       /\ last.ret <=> \A k \in 1..Len(last.list) : ~is_empty(LastGrid[CellOf(last.list[k])])

\* A clear_candidates whose entry k emptied a cell and whose next entry removed
\* a candidate of another cell.
C7_Witness ==
    /\ last.op = "clear_candidates"
    /\ \E k \in 1..(Len(last.list) - 1) :
          /\ ~IndividualRet(k)
          /\ CellOf(last.list[k + 1]) # CellOf(last.list[k])
          /\ has_candidate(input.size, PrevGrid, last.list[k + 1])
          /\ ~has_candidate(input.size, LastGrid, last.list[k + 1])

\* The cell and the value the last clear_value or clear_candidate named.
ClearedCell == IF last.op = "clear_candidate" THEN CellOf(last.list[1]) ELSE last.cell
ClearedVal ==
    IF last.op = "clear_candidate"
    THEN cell_index_and_value(input.size, last.list[1])[2] ELSE last.val

\* C8: clear_value and clear_candidate remove exactly the one value from the
\* one cell, leave the solved flag, the other values and the other cells as
\* they were, and return true iff the cell is non-empty afterwards.
C8_ClearOne ==
    last.op \in {"clear_value", "clear_candidate"}
    => /\ boards = [prev EXCEPT ![last.b].board[ClearedCell].vals = @ \ {ClearedVal}]
       /\ last.ret <=> LastGrid[ClearedCell].vals # {}

\* A clear_candidate that removed the last value of a cell and returned false.
C8_Witness ==
    /\ last.op = "clear_candidate"
    /\ has(PrevGrid[ClearedCell], ClearedVal)
    /\ LastGrid[ClearedCell].vals = {}
    /\ ~last.ret

\* C9: a self-pair (X, X) supplied by a constraint never becomes an edge (no
\* candidate is in its own weak-link set), X is absent right after
\* construction, and a set_solved for X made first on that board returns false
\* without changing anything.
C9_ForcedElimination ==
    /\ \A i \in 1..Len(datas) : \A a \in Candidates(input.size) : a \notin datas[i].weak_links[a]
    /\ last.op = "new"
       => \A x \in ForcedEliminations : ~has_candidate(input.size, boards[1].board, x)
    /\ (/\ last.op = "set_solved"
        /\ nops = 1
        /\ candidate(input.size, last.cell, last.val) \in ForcedEliminations)
       => /\ ~last.ret
          /\ boards = prev
          /\ last.cleared = <<>>
          /\ last.enforced = <<>>

\* The first call on a board is a set_solved for a forced elimination.
C9_Witness ==
    /\ last.op = "set_solved"
    /\ nops = 1
    /\ candidate(input.size, last.cell, last.val) \in ForcedEliminations
    /\ ~has_candidate(input.size, PrevGrid, candidate(input.size, last.cell, last.val))

MutationOps == {"clear_value", "clear_candidate", "clear_candidates", "set_solved", "set_mask"}

\* C10: a clone starts with the grid of the board it was cloned from, and a
\* clear_value, clear_candidate, clear_candidates, set_solved or set_mask call
\* on one board leaves the grid of every other board unchanged, shared
\* BoardData or not.
C10_BranchIsolation ==
    /\ last.op \in MutationOps
       => \A b \in 1..Len(boards) : b # last.b => boards[b] = prev[b]
    /\ last.op \in {"clone", "deep_clone"}
       => /\ boards[Len(boards)].board = prev[last.b].board
          /\ \A b \in 1..Len(prev) : boards[b] = prev[b]

\* A call that changed the grid of a shallow clone.
C10_Witness ==
    /\ last.op \in MutationOps
    /\ Len(boards) = 2
    /\ last.b = 2
    /\ boards[1].data = boards[2].data
    /\ LastGrid # PrevGrid

\* The houses the constraints supplied.
SuppliedHouses ==
    UNION {Range(input.constraints[k].houses) : k \in 1..Len(input.constraints)}

\* C11: no two houses of the final house list have the same set of member
\* cells, whatever the order or the name a constraint gave its house.
C11_NoDuplicateHouses ==
    pc # "start"
    => \A n \in 1..Len(datas) :
          \A i, j \in 1..Len(datas[n].houses) :
              i # j => Range(datas[n].houses[i].cells) # Range(datas[n].houses[j].cells)

\* A constraint house with the cells of an existing house, under another
\* name, was left out of the final house list.
C11_Witness ==
    /\ pc = "ready"
    /\ \E h \in SuppliedHouses :
          /\ \A i \in 1..Len(datas[1].houses) : datas[1].houses[i].name # h.name
          /\ \E i \in 1..Len(datas[1].houses) :
                Range(datas[1].houses[i].cells) = Range(h.cells)

\* Size 4, the argument for the default boxes, no constraints.
IsDefault4 == input.size = 4 /\ input.regions = <<>> /\ input.constraints = <<>>

\* C12: for size 4 with the default boxes and no constraints, the weak-link
\* set of (cell (0,0), value 1) is: values 2, 3, 4 at cell (0,0); value 1 at the
\* other cells of row 0 and of column 0; value 1 at cell (1,1). Ten members.
C12_Size4Links ==
    (pc = "ready" /\ IsDefault4)
    => LET c00 == cell(4, 0, 0)
           set == datas[1].weak_links[candidate(4, c00, 1)]
       IN  /\ set = {candidate(4, c00, v) : v \in 2..4}
                    \cup {candidate(4, cell(4, 0, col), 1) : col \in 1..3}
                    \cup {candidate(4, cell(4, row, 0), 1) : row \in 1..3}
                    \cup {candidate(4, cell(4, 1, 1), 1)}
           /\ Cardinality(set) = 10

\* The size-4 board with default boxes is constructed: 12 houses.
C12_Witness ==
    /\ pc = "ready"
    /\ IsDefault4
    /\ Len(datas[1].houses) = 12
    /\ candidate(4, cell(4, 1, 1), 1) \in datas[1].weak_links[0]

\* C13: set_mask(cell, mask) has three outcomes. A mask with the solved flag
\* (empty or not) fails the assertion before anything is written; an empty mask
\* without the flag returns false and leaves the boards unchanged; any other
\* mask replaces exactly that cell's mask and returns true.
C13_SetMaskOutcomes ==
    /\ pc = "panic" => last.op = "set_mask" /\ last.mask.solved
    /\ last.op = "set_mask"
       => IF last.mask.solved
          THEN pc = "panic" /\ boards = prev
          ELSE /\ pc = "ready"
               /\ IF last.mask.vals = {}
                  THEN ~last.ret /\ boards = prev
                  ELSE /\ last.ret
                       /\ boards = [prev EXCEPT ![last.b].board[last.cell] = last.mask]

\* set_mask was given a solved single-value mask.
C13_Witness ==
    /\ last.op = "set_mask"
    /\ last.mask.solved
    /\ Cardinality(last.mask.vals) = 1
    /\ pc = "panic"

\* The candidate the last set_solved solved and its weak-link set.
TargetCand == candidate(input.size, last.cell, last.val)
LinkSet == LastData.weak_links[TargetCand]

\* The grid of the last set_solved once its cell is marked as solved.
MarkedGrid == [PrevGrid EXCEPT ![last.cell] = SolvedMask(last.val)]

\* Grid g without the candidates of S.
Without(g, S) ==
    [c \in Cells(input.size) |->
        [g[c] EXCEPT !.vals = @ \ {v \in 1..input.size : candidate(input.size, c, v) \in S}]]

\* The linked candidates up to a, and whether clearing a after the smaller
\* ones leaves the cell of a empty.
Below(a) == {x \in LinkSet : x <= a}
Fails(a) == is_empty(Without(MarkedGrid, Below(a))[CellOf(a)])
FailSet == {a \in LinkSet : Fails(a)}
FirstFail == CHOOSE a \in FailSet : \A x \in FailSet : a <= x

\* C14: set_solved clears the linked candidates one at a time in ascending
\* candidate order; the first clear that empties a cell makes it return false
\* at once: the larger linked candidates are not cleared, the eliminations made
\* so far stay, and no constraint is invoked.
C14_EliminationOrder ==
    (last.op = "set_solved" /\ PassedChecks)
    => /\ \A i, j \in 1..Len(last.cleared) : i < j => last.cleared[i] < last.cleared[j]
       /\ IF FailSet # {}
          THEN /\ Range(last.cleared) = Below(FirstFail)
               /\ ~last.ret
               /\ LastGrid = Without(MarkedGrid, Below(FirstFail))
               /\ last.enforced = <<>>
          ELSE Range(last.cleared) = LinkSet

\* A set_solved stopped by a contradiction while a larger linked candidate was
\* still present, and is still present afterwards.
C14_Witness ==
    /\ last.op = "set_solved"
    /\ PassedChecks
    /\ FailSet # {}
    /\ \E a \in LinkSet : a > FirstFail /\ has_candidate(input.size, LastGrid, a)
    /\ \E a \in LinkSet : a < FirstFail /\ CellOf(a) # last.cell
                          /\ has_candidate(input.size, PrevGrid, a)

\* The last set_solved passed its checks and no elimination emptied a cell.
ElimOk == PassedChecks /\ FailSet = {}

\* What constraint k clears for the solved candidate, and the grid once the
\* eliminations and the constraints 1..j have acted.
Targets(k) == Range(EnforceTargets(LastData.constraints[k], TargetCand))
EnforcedGrid(j) == Without(Without(MarkedGrid, LinkSet), UNION {Targets(k) : k \in 1..j})

\* Constraint k, invoked after the constraints before it, reports Invalid.
ReportsInvalid(k) ==
    \/ TargetCand \in LastData.constraints[k].invalid
    \/ \E t \in Targets(k) : is_empty(EnforcedGrid(k)[CellOf(t)])
InvalidSet == {k \in 1..Len(LastData.constraints) : ReportsInvalid(k)}

\* The number of constraints a set_solved whose eliminations succeeded invokes.
Invoked ==
    IF InvalidSet = {} THEN Len(LastData.constraints)
    ELSE CHOOSE k \in InvalidSet : \A x \in InvalidSet : k <= x

\* C15: set_solved invokes the constraints only after every elimination
\* succeeded, in list order; the first Invalid ends the sequence and makes it
\* return false, any other outcome goes on to the next constraint; it returns
\* true iff the checks passed, no elimination failed and no constraint reported
\* Invalid.
C15_EnforceOrder ==
    last.op = "set_solved"
    => /\ last.enforced = IF ElimOk THEN [i \in 1..Invoked |-> i] ELSE <<>>
       /\ last.ret <=> (ElimOk /\ InvalidSet = {})

\* The second of three constraints reported Invalid: the third was not invoked.
C15_Witness ==
    /\ last.op = "set_solved"
    /\ ElimOk
    /\ Len(LastData.constraints) = 3
    /\ last.enforced = <<1, 2>>
    /\ ~last.ret
    /\ EnforcedGrid(1) = EnforcedGrid(0)

\* The first constraint changed the grid and the other two were still invoked.
C15_Continued ==
    /\ last.op = "set_solved"
    /\ last.enforced = <<1, 2, 3>>
    /\ last.ret
    /\ EnforcedGrid(1) # EnforcedGrid(0)

\* The forced eliminations of construction took every value of some cell.
EmptiedAtStart ==
    \E c \in Cells(input.size) :
        \A v \in 1..input.size : candidate(input.size, c, v) \in ForcedEliminations

\* Cell c of grid g is not empty, and holds one value if its solved flag is set.
Consistent(g, c) ==
    /\ ~is_empty(g[c])
    /\ is_solved(g[c]) => Cardinality(g[c].vals) = 1

\* C16: when the forced eliminations of construction emptied no cell and every
\* clear_value, clear_candidate, clear_candidates, set_solved and set_mask call
\* made on a board returned true, no cell of the board has an empty mask and
\* every cell with the solved flag holds exactly one value.
C16_Consistency ==
    \A b \in 1..Len(boards) :
        (~EmptiedAtStart /\ hist[b].allTrue)
        => \A c \in Cells(input.size) : Consistent(boards[b].board, c)

\* Without constraints, a second call that returned true solved a cell and
\* took values from other cells, after a first call that changed the grid.
C16_Witness ==
    /\ pc = "ready"
    /\ last.op = "set_solved"
    /\ input.constraints = <<>>
    /\ hist[1].allTrue
    /\ nops >= 2
    /\ last.ret
    /\ \E c \in Cells(input.size) : c # last.cell /\ LastGrid[c] # PrevGrid[c]
    /\ \E c \in Cells(input.size) : from_all_values(input.size) \notin {PrevGrid[c], LastGrid[c]}

\* The cell sets of the houses built, and of the rows, the columns, the groups
\* of a region assignment and the houses the constraints supply.
HouseSets == {Range(datas[1].houses[i].cells) : i \in 1..Len(datas[1].houses)}
RowSets == {{cell(input.size, r, c) : c \in 0..(input.size - 1)} : r \in 0..(input.size - 1)}
ColumnSets == {{cell(input.size, r, c) : r \in 0..(input.size - 1)} : c \in 0..(input.size - 1)}
GroupSets(regs) == {{c \in Cells(input.size) : regs[c + 1] = r} : r \in Range(regs)}
SuppliedSets == {Range(h.cells) : h \in SuppliedHouses}

\* The supplied assignment has one entry per cell and size cells per region.
Covering ==
    /\ Len(input.regions) = NumCells(input.size)
    /\ \A g \in GroupSets(input.regions) : Cardinality(g) = input.size

ForcedGrid ==
    Without([c \in Cells(input.size) |-> from_all_values(input.size)], ForcedEliminations)

\* Construction ends with a board that has every forced elimination applied,
\* also when they empty a cell.
C18_BoardYielded == last.op = "new" => (pc = "ready" /\ boards[1].board = ForcedGrid)

\* The forced eliminations emptied cell 0 and the board was still built.
C18_Unsatisfiable == last.op = "new" /\ is_empty(boards[1].board[0]) /\ EmptiedAtStart

\* C18: when the forced eliminations empty a cell, construction still yields
\* the board with all of them applied, and the caller of construction receives
\* what clear_candidates reported for them.
C18_Original ==
    last.op = "new"
    => /\ pc = "ready"
       /\ boards[1].board = ForcedGrid
       /\ last.ret = NewGrid(datas[1], elims).ret

\* What another construction from the same input can build: one per order in
\* which the hash map hands back its regions.
Constructions ==
    {BoardDataNew(input.size, input.regions, input.constraints, o) :
        o \in Orders(RegionKeys(input.size, input.regions))}

\* The houses and the per-cell lists built hold the same houses, in whatever
\* order, as those of every other construction from the same input.
C19_SameHouses ==
    pc = "ready"
    => \A d \in Constructions :
          /\ Range(d.houses) = Range(datas[1].houses)
          /\ \A c \in Cells(input.size) :
                Range(d.houses_by_cell[c]) = Range(datas[1].houses_by_cell[c])

\* C19: two constructions from the same size, region assignment and constraint
\* list give the same house list in the same order, region houses included,
\* and the same per-cell house lists.
C19_Original ==
    pc # "start"
    => \A d \in Constructions :
          /\ d.houses = datas[1].houses
          /\ d.houses_by_cell = datas[1].houses_by_cell

\* The directed edges stored in the weak-link sets of the data under construction.
StoredEdges == SumOver(Candidates(input.size), datas[1].weak_links)

\* total_weak_links counts the directed edges stored, and is even.
CountsEdges ==
    pc # "start"
    => /\ datas[1].total_weak_links = StoredEdges
       /\ datas[1].total_weak_links % 2 = 0

\* The pair the next add_weak_link call gets is already linked.
AlreadyLinked ==
    /\ pc \in {"sudoku_links", "constraint_links"}
    /\ work # <<>>
    /\ Head(work)[1] # Head(work)[2]
    /\ Head(work)[2] \in datas[1].weak_links[Head(work)[1]]

\* C20: after every add_weak_link step and at the end of construction
\* total_weak_links is the sum over all candidates of the size of their
\* weak-link set, hence even; adding a pair that is already linked, repeated by
\* a later house or supplied by a constraint in either orientation, changes
\* neither the graph nor the count.
C20_LinkCount ==
    /\ []CountsEdges
    /\ [][AlreadyLinked
          => /\ datas'[1].weak_links = datas[1].weak_links
             /\ datas'[1].total_weak_links = datas[1].total_weak_links]_vars

\* Construction is over; a constraint supplied one pair in both orientations
\* and one pair that shares a cell, and the count is that of the stored edges.
C20_Witness ==
    /\ pc = "ready"
    /\ \E p \in SuppliedLinks : <<p[2], p[1]>> \in SuppliedLinks
    /\ \E p \in SuppliedLinks : CellOf(p[1]) = CellOf(p[2])
    /\ datas[1].total_weak_links = StoredEdges
    /\ StoredEdges > 0
====
